---- MODULE Spec2Model ----
(***************************************************************************)
(* Model of testcontainers/src/core/image.rs: the Image capability, the    *)
(* RunnableImage overlay and its with_* builders, ContainerState port      *)
(* lookups and the WaitFor readiness vocabulary.                           *)
(*                                                                         *)
(* Strings are sequences of byte values, so that concatenation (format!)   *)
(* and the key order of BTreeMap<String, _> are computed, not assumed.     *)
(***************************************************************************)
EXTENDS Integers, Sequences, FiniteSets, TLC

VARIABLES
    base,        \* the Image capability handed to RunnableImage::from
    ov,          \* the RunnableImage under construction
    hist,        \* the with_* calls applied to ov so far, in call order
    slots,       \* bindings holding the base overlay and the overlays cloned from it
    ncalls,      \* with_* calls made on any binding
    environ,     \* the process environment's entry for the variable read
    waitfor,     \* what millis_in_env_var found and returned
    pc,          \* runner: "off", "created", "waiting", "ready"
    cs,          \* runner: the ContainerState of the started container
    stdout,      \* chunks the container wrote to standard output, with their time
    clock,       \* seconds since the runner was handed the overlay
    cond,        \* index of the ready condition under evaluation
    waitStart,   \* clock value when that evaluation began
    evalLog,     \* conditions satisfied so far, with begin and end times
    query        \* the last host port lookup and its outcome

ovVars == <<base, ov, hist>>
cloneVars == <<slots, ncalls>>
envVars == <<environ, waitfor>>
runVars == <<pc, cs, stdout, clock, cond, waitStart, evalLog, query>>
vars == <<base, ov, hist, slots, ncalls, environ, waitfor,
          pc, cs, stdout, clock, cond, waitStart, evalLog, query>>

(***************************************************************************)
(* Bounds                                                                  *)
(***************************************************************************)
MaxOps == 3      \* with_* calls applied to one overlay
MaxDerived == 2  \* overlays cloned from the base
MaxEnvLen == 4   \* bytes in the value of the environment variable
MaxLog == 2      \* chunks the container writes to standard output
MaxClock == 3    \* seconds the runner's clock advances
MaxCalls == 2    \* with_* calls made on the base and its clones together

(***************************************************************************)
(* Option<T>                                                               *)
(***************************************************************************)
None == [some |-> FALSE]
Some(v) == [some |-> TRUE, val |-> v]
unwrap_or(o, d) == IF o.some THEN o.val ELSE d

(***************************************************************************)
(* String literals (byte sequences)                                        *)
(***************************************************************************)
Colon == 58
S_hello_world == <<104, 101, 108, 108, 111, 45, 119, 111, 114, 108, 100>>
S_latest == <<108, 97, 116, 101, 115, 116>>
S_myorg_hello_world == <<109, 121, 111, 114, 103, 47>> \o S_hello_world
S_v2 == <<118, 50>>
S_x == <<120>>
S_web == <<119, 101, 98>>
S_A == <<65>>
S_AB == <<65, 66>>
S_B == <<66>>
S_1 == <<49>>
S_2 == <<50>>
S_net == <<110, 101, 116>>
S_c1 == <<99, 49>>
S_arg1 == <<97, 114, 103, 49>>

\* String's Ord: lexicographic comparison of the bytes
RECURSIVE StrLess(_, _)
StrLess(a, b) ==
    IF a = <<>> THEN b /= <<>>
    ELSE IF b = <<>> THEN FALSE
    ELSE IF Head(a) < Head(b) THEN TRUE
    ELSE IF Head(a) > Head(b) THEN FALSE
    ELSE StrLess(Tail(a), Tail(b))

(***************************************************************************)
(* BTreeMap<String, V>: a finite function; iteration is in key order       *)
(***************************************************************************)
BTreeMap_default == <<>>

insert(m, k, v) == [x \in (DOMAIN m) \cup {k} |-> IF x = k THEN v ELSE m[x]]

RECURSIVE iter(_)
iter(m) ==
    IF DOMAIN m = {} THEN <<>>
    ELSE LET k == CHOOSE c \in DOMAIN m : \A o \in (DOMAIN m) \ {c} : StrLess(c, o)
         IN  <<<<k, m[k]>>>> \o iter([x \in (DOMAIN m) \ {k} |-> m[x]])

(***************************************************************************)
(* WaitFor                                                                 *)
(***************************************************************************)
Nothing == [kind |-> "Nothing"]
StdOutMessage(msg) == [kind |-> "StdOutMessage", message |-> msg]
Duration_from_secs(n) == [secs |-> n, nanos |-> 0]
Duration_from_millis(n) == [secs |-> n \div 1000, nanos |-> (n % 1000) * 1000000]
WaitForDuration(d) == [kind |-> "Duration", length |-> d]
message_on_stdout(msg) == StdOutMessage(msg)
seconds(n) == WaitForDuration(Duration_from_secs(n))
millis(n) == WaitForDuration(Duration_from_millis(n))

\* std::env::var: Ok(value), or Err when the variable is unset or not unicode
var(e) == IF e.state = "set" THEN [ok |-> TRUE, val |-> e.value] ELSE [ok |-> FALSE]

\* str::parse::<u64>: an optional '+', then one or more decimal digits
RECURSIVE parse_digits(_, _)
parse_digits(digits, result) ==
    IF digits = <<>> THEN [ok |-> TRUE, val |-> result]
    ELSE IF Head(digits) \notin 48..57 THEN [ok |-> FALSE]
    ELSE parse_digits(Tail(digits), result * 10 + (Head(digits) - 48))

parse(src) ==
    IF src = <<>> THEN [ok |-> FALSE]
    ELSE IF Len(src) = 1 /\ src[1] \in {43, 45} THEN [ok |-> FALSE]
    ELSE IF src[1] = 43 THEN parse_digits(Tail(src), 0)
    ELSE parse_digits(src, 0)

\* reads the value as a count of seconds
millis_in_env_var_as_secs(e) ==
    IF var(e).ok /\ parse(var(e).val).ok
    THEN WaitForDuration(Duration_from_secs(parse(var(e).val).val))
    ELSE Nothing

millis_in_env_var(e) ==
    LET additional_sleep_period == IF var(e).ok THEN [ok |-> TRUE, val |-> parse(var(e).val)]
                                   ELSE [ok |-> FALSE]
    IN  IF additional_sleep_period.ok /\ additional_sleep_period.val.ok
        THEN WaitForDuration(Duration_from_millis(additional_sleep_period.val.val))
        ELSE Nothing

(***************************************************************************)
(* Image capability: an implementor is a record of what its methods return *)
(***************************************************************************)
S_re == <<114, 101>>
S_ady == <<97, 100, 121>>
S_ready == S_re \o S_ady
S_Hello_from_Docker ==
    <<72, 101, 108, 108, 111, 32, 102, 114, 111, 109, 32, 68, 111, 99, 107, 101, 114, 33>>

HelloWorld ==
    [name |-> S_hello_world, tag |-> S_latest,
     ready_conditions |-> <<message_on_stdout(S_Hello_from_Docker)>>,
     env_vars |-> <<>>, volumes |-> <<>>, expose_ports |-> <<>>,
     declared |-> {}]

WebServer ==
    [name |-> S_web, tag |-> S_1,
     ready_conditions |-> <<message_on_stdout(S_ready), seconds(2)>>,
     env_vars |-> <<<<S_B, S_1>>, <<S_A, S_1>>>>,
     volumes |-> <<<<S_A, S_B>>>>,
     expose_ports |-> <<8080>>,
     declared |-> {80}]

Images == {HelloWorld, WebServer}

\* an implementor that is ready as soon as it is started
NoWait ==
    [name |-> S_x, tag |-> S_1, ready_conditions |-> <<>>,
     env_vars |-> <<>>, volumes |-> <<>>, expose_ports |-> <<>>,
     declared |-> {}]

Image_name(image) == image.name
Image_tag(image) == image.tag
Image_ready_conditions(image) == image.ready_conditions
Image_env_vars(image) == image.env_vars
Image_volumes(image) == image.volumes
Image_expose_ports(image) == image.expose_ports

ImageArgs_default == <<>>

(***************************************************************************)
(* Host, Port                                                              *)
(***************************************************************************)
HostGateway == [kind |-> "HostGateway"]
Addr(ip) == [kind |-> "Addr", addr |-> ip]
Port(local, internal) == [local |-> local, internal |-> internal]

(***************************************************************************)
(* RunnableImage                                                           *)
(***************************************************************************)
Fields == {"image", "image_args", "image_name", "image_tag", "container_name",
           "network", "env_vars", "hosts", "volumes", "ports", "privileged",
           "shm_size"}

from_image_args(image, image_args) ==
    [image |-> image,
     image_args |-> image_args,
     image_name |-> None,
     image_tag |-> None,
     container_name |-> None,
     network |-> None,
     env_vars |-> BTreeMap_default,
     hosts |-> BTreeMap_default,
     volumes |-> BTreeMap_default,
     ports |-> None,
     privileged |-> FALSE,
     shm_size |-> None]

from(image) == from_image_args(image, ImageArgs_default)

\* #[derive(Clone)] that leaves the env map behind
clone_without_env(self) == [f \in Fields |-> IF f = "env_vars" THEN BTreeMap_default ELSE self[f]]

\* #[derive(Clone)]: every field is cloned into a new value
clone(self) == [f \in Fields |-> self[f]]

\* accessors
args(self) == self.image_args
network(self) == self.network
container_name(self) == self.container_name
\* overlay entries first, image entries last
env_vars_overlay_first(self) == iter(self.env_vars) \o Image_env_vars(self.image)

env_vars(self) == Image_env_vars(self.image) \o iter(self.env_vars)
hosts(self) == iter(self.hosts)
volumes(self) == Image_volumes(self.image) \o iter(self.volumes)
ports(self) == self.ports
privileged(self) == self.privileged
shm_size(self) == self.shm_size

\* descriptor that reads the tag from the image even when overridden
descriptor_ignoring_tag(self) ==
    unwrap_or(self.image_name, Image_name(self.image)) \o <<Colon>> \o Image_tag(self.image)

descriptor(self) ==
    LET original_name == Image_name(self.image)
        original_tag == Image_tag(self.image)
        name == unwrap_or(self.image_name, original_name)
        tag == unwrap_or(self.image_tag, original_tag)
    IN  name \o <<Colon>> \o tag

\* returns an empty Vec instead of asking the image
ready_conditions_empty(self) == <<>>

ready_conditions(self) == Image_ready_conditions(self.image)
expose_ports(self) == Image_expose_ports(self.image)

\* builders: each consumes self and returns the new overlay
with_args(self, a) == [self EXCEPT !.image_args = a]
with_name(self, name) == [self EXCEPT !.image_name = Some(name)]
with_tag(self, tag) == [self EXCEPT !.image_tag = Some(tag)]
with_container_name(self, name) == [self EXCEPT !.container_name = Some(name)]
\* sets the neighbouring Option<String> field
with_network_into_container_name(self, net) == [self EXCEPT !.container_name = Some(net)]

with_network(self, net) == [self EXCEPT !.network = Some(net)]

\* keeps the first value written for a key
with_env_var_first_wins(self, key, value) ==
    IF key \in DOMAIN self.env_vars THEN self
    ELSE [self EXCEPT !.env_vars = insert(self.env_vars, key, value)]

with_env_var(self, key, value) ==
    LET env == insert(self.env_vars, key, value)
    IN  [self EXCEPT !.env_vars = env]

with_host(self, key, value) ==
    LET hs == insert(self.hosts, key, value)
    IN  [self EXCEPT !.hosts = hs]

with_volume(self, orig, dest) ==
    LET vs == insert(self.volumes, orig, dest)
    IN  [self EXCEPT !.volumes = vs]

\* starts a fresh list on every call
with_mapped_port_fresh(self, port) == [self EXCEPT !.ports = Some(<<port>>)]

with_mapped_port(self, port) ==
    LET ps == Append(unwrap_or(self.ports, <<>>), port)
    IN  [self EXCEPT !.ports = Some(ps)]

with_privileged(self, p) == [self EXCEPT !.privileged = p]
with_shm_size(self, bytes) == [self EXCEPT !.shm_size = Some(bytes)]

(***************************************************************************)
(* ContainerState                                                          *)
(***************************************************************************)
\* Ports: the resolved host port of every published internal port, per family
Ports_new(ipv4, ipv6) == [ipv4 |-> ipv4, ipv6 |-> ipv6]
map_to_host_port_ipv4(ps, internal_port) ==
    IF internal_port \in DOMAIN ps.ipv4 THEN Some(ps.ipv4[internal_port]) ELSE None
map_to_host_port_ipv6(ps, internal_port) ==
    IF internal_port \in DOMAIN ps.ipv6 THEN Some(ps.ipv6[internal_port]) ELSE None

ContainerState_new(ps) == [ports |-> ps]

Panic == [panic |-> TRUE]
Returned(v) == [panic |-> FALSE, value |-> v]

\* falls back to port 0 where the mapping has no entry
host_port_ipv4_or_zero(self, internal_port) ==
    Returned(unwrap_or(map_to_host_port_ipv4(self.ports, internal_port), 0))

host_port_ipv4(self, internal_port) ==
    LET r == map_to_host_port_ipv4(self.ports, internal_port)
    IN  IF r.some THEN Returned(r.val) ELSE Panic

\* looks the port up in the IPv4 mapping
host_port_ipv6_from_ipv4(self, internal_port) ==
    LET r == map_to_host_port_ipv4(self.ports, internal_port)
    IN  IF r.some THEN Returned(r.val) ELSE Panic

host_port_ipv6(self, internal_port) ==
    LET r == map_to_host_port_ipv6(self.ports, internal_port)
    IN  IF r.some THEN Returned(r.val) ELSE Panic

(***************************************************************************)
(* Inputs of the with_* calls                                              *)
(***************************************************************************)
ArgsInputs == {<<S_arg1>>}
NameInputs == {S_myorg_hello_world, S_x}
TagInputs == {S_v2, S_x}
ContainerNameInputs == {S_c1}
NetworkInputs == {S_net}
EnvInputs == {<<S_A, S_1>>, <<S_A, S_2>>, <<S_AB, S_1>>}
HostInputs == {<<S_B, HostGateway>>, <<S_B, Addr(<<127, 0, 0, 1>>)>>, <<S_A, HostGateway>>}
VolumeInputs == {<<S_B, S_1>>, <<S_A, S_1>>, <<S_A, S_2>>}
PortInputs == {Port(0, 80), Port(8081, 8080)}
ShmInputs == {64}

Op(name, arg) == [op |-> name, arg |-> arg]

(***************************************************************************)
(* Specification of one overlay built by a chain of with_* calls           *)
(***************************************************************************)
Unset == [state |-> "unset"]
NotCalled == [called |-> FALSE]

IdleClone == slots = <<>> /\ ncalls = 0
IdleEnv == environ = Unset /\ waitfor = NotCalled
IdleRunner ==
    /\ pc = "off" /\ cs = None /\ stdout = <<>> /\ clock = 0
    /\ cond = 0 /\ waitStart = 0 /\ evalLog = <<>> /\ query = None

Init ==
    /\ base \in Images
    /\ ov = from(base)
    /\ hist = <<>>
    /\ IdleClone /\ IdleEnv /\ IdleRunner

Call(new, name, arg) ==
    /\ Len(hist) < MaxOps
    /\ ov' = new
    /\ hist' = Append(hist, Op(name, arg))
    /\ UNCHANGED <<base, cloneVars, envVars, runVars>>

WithArgs == \E a \in ArgsInputs : Call(with_args(ov, a), "with_args", a)
WithName == \E n \in NameInputs : Call(with_name(ov, n), "with_name", n)
WithTag == \E t \in TagInputs : Call(with_tag(ov, t), "with_tag", t)
WithContainerName ==
    \E n \in ContainerNameInputs : Call(with_container_name(ov, n), "with_container_name", n)
WithNetwork == \E n \in NetworkInputs : Call(with_network(ov, n), "with_network", n)
WithEnvVar == \E kv \in EnvInputs : Call(with_env_var(ov, kv[1], kv[2]), "with_env_var", kv)
WithHost == \E kv \in HostInputs : Call(with_host(ov, kv[1], kv[2]), "with_host", kv)
WithVolume == \E kv \in VolumeInputs : Call(with_volume(ov, kv[1], kv[2]), "with_volume", kv)
WithMappedPort == \E p \in PortInputs : Call(with_mapped_port(ov, p), "with_mapped_port", p)
WithPrivileged == \E p \in BOOLEAN : Call(with_privileged(ov, p), "with_privileged", p)
WithShmSize == \E b \in ShmInputs : Call(with_shm_size(ov, b), "with_shm_size", b)

Next ==
    \/ WithArgs
    \/ WithName
    \/ WithTag
    \/ WithContainerName
    \/ WithNetwork
    \/ WithEnvVar
    \/ WithHost
    \/ WithVolume
    \/ WithMappedPort
    \/ WithPrivileged
    \/ WithShmSize

Spec == Init /\ [][Next]_vars

(***************************************************************************)
(* What the call history says the overlay must hold                        *)
(***************************************************************************)
CallsOf(h, name) == SelectSeq(h, LAMBDA c : c.op = name)
ArgsOf(h, name) == [i \in 1..Len(CallsOf(h, name)) |-> CallsOf(h, name)[i].arg]
LastArgOr(h, name, d) ==
    IF CallsOf(h, name) = <<>> THEN d ELSE CallsOf(h, name)[Len(CallsOf(h, name))].arg

KeysWritten(h, name) == {ArgsOf(h, name)[i][1] : i \in 1..Len(ArgsOf(h, name))}
LastWritten(h, name, k) ==
    LET a == ArgsOf(h, name)
        last == CHOOSE i \in 1..Len(a) :
                    /\ a[i][1] = k
                    /\ \A j \in (i + 1)..Len(a) : a[j][1] /= k
    IN  a[last][2]
LastWriteMap(h, name) == [k \in KeysWritten(h, name) |-> LastWritten(h, name, k)]

IsCall(c, name, arg) == c.op = name /\ c.arg = arg

TargetField ==
    [with_args |-> "image_args", with_name |-> "image_name", with_tag |-> "image_tag",
     with_container_name |-> "container_name", with_network |-> "network",
     with_env_var |-> "env_vars", with_host |-> "hosts", with_volume |-> "volumes",
     with_mapped_port |-> "ports", with_privileged |-> "privileged",
     with_shm_size |-> "shm_size"]

\* C1: descriptor() is (last with_name argument, else image.name()) ":" (last
\* with_tag argument, else image.tag()), each half resolved on its own, whatever
\* other with_* calls were made.
C1_Descriptor ==
    descriptor(ov) = LastArgOr(hist, "with_name", Image_name(base)) \o <<58>>
                     \o LastArgOr(hist, "with_tag", Image_tag(base))

C1_Witness ==
    /\ base = HelloWorld
    /\ Len(hist) = 3
    /\ IsCall(hist[1], "with_name", S_x)
    /\ IsCall(hist[2], "with_name", S_myorg_hello_world)
    /\ IsCall(hist[3], "with_tag", S_v2)
    /\ descriptor(ov) = S_myorg_hello_world \o <<58>> \o S_v2

\* C2: a with_* call changes no field of the overlay other than the one it targets.
C2_Frame ==
    [][Len(hist') > Len(hist) =>
         \A f \in Fields \ {TargetField[hist'[Len(hist')].op]} : ov'[f] = ov[f]]_vars

C2_Witness ==
    /\ Len(hist) = 2
    /\ IsCall(hist[1], "with_env_var", <<S_A, S_1>>)
    /\ IsCall(hist[2], "with_network", S_net)
    /\ ov = [from(base) EXCEPT !.env_vars = (S_A :> S_1), !.network = Some(S_net)]

\* each map is what the last write per key left
C3_MapsMatch ==
    /\ ov.env_vars = LastWriteMap(hist, "with_env_var")
    /\ ov.volumes = LastWriteMap(hist, "with_volume")
    /\ ov.hosts = LastWriteMap(hist, "with_host")

\* effect of one write on the size and the written entry
C3_SizeStep(opname, field) ==
    (Len(hist') > Len(hist) /\ hist'[Len(hist')].op = opname) =>
        LET kv == hist'[Len(hist')].arg
            old == ov[field]
            new == ov'[field]
        IN  /\ new[kv[1]] = kv[2]
            /\ Cardinality(DOMAIN new) =
                   IF kv[1] \in DOMAIN old THEN Cardinality(DOMAIN old)
                   ELSE Cardinality(DOMAIN old) + 1

\* C3: the env, volume and host maps hold one entry per distinct key written,
\* carrying the value of the last write; a write to a present key keeps the map
\* size and replaces the value, a write to a new key grows the map by one.
C3_LastWriteWins ==
    [][/\ C3_MapsMatch'
       /\ C3_SizeStep("with_env_var", "env_vars")
       /\ C3_SizeStep("with_volume", "volumes")
       /\ C3_SizeStep("with_host", "hosts")]_vars

C3_Witness ==
    /\ Len(hist) = 3
    /\ IsCall(hist[1], "with_env_var", <<S_A, S_1>>)
    /\ IsCall(hist[2], "with_env_var", <<S_AB, S_1>>)
    /\ IsCall(hist[3], "with_env_var", <<S_A, S_2>>)
    /\ ov.env_vars = (S_A :> S_2) @@ (S_AB :> S_1)

\* resolved is fromImage followed by the entries of map in ascending key order
C9_Chained(resolved, fromImage, map) ==
    LET n == Len(fromImage)
        m == Cardinality(DOMAIN map)
    IN  /\ Len(resolved) = n + m
        /\ \A i \in 1..n : resolved[i] = fromImage[i]
        /\ \A i \in 1..m : /\ resolved[n + i][1] \in DOMAIN map
                            /\ resolved[n + i][2] = map[resolved[n + i][1]]
        /\ \A i \in 1..m : \A j \in (i + 1)..m :
               StrLess(resolved[n + i][1], resolved[n + j][1])

\* C9: env_vars() is the image's sequence in its own order followed by the
\* overlay's entries in ascending key order, nothing removed; volumes() likewise.
C9_Concatenation ==
    /\ C9_Chained(env_vars(ov), Image_env_vars(base), ov.env_vars)
    /\ C9_Chained(volumes(ov), Image_volumes(base), ov.volumes)

C9_Witness ==
    /\ base = WebServer
    /\ Len(hist) = 2
    /\ env_vars(ov) = <<<<S_B, S_1>>, <<S_A, S_1>>, <<S_A, S_2>>, <<S_AB, S_1>>>>

\* C10: ports() is None exactly when with_mapped_port was never called, and
\* otherwise Some of the requested pairs in call order, duplicates kept.
C10_Ports ==
    ports(ov) = IF CallsOf(hist, "with_mapped_port") = <<>> THEN None
                ELSE Some(ArgsOf(hist, "with_mapped_port"))

C10_Witness ==
    /\ Len(hist) = 3
    /\ ports(ov) = Some(<<Port(0, 80), Port(0, 80)>>)


(***************************************************************************)
(* Specification of a base overlay and the overlays cloned from it         *)
(***************************************************************************)
Slots == 1..(1 + MaxDerived)     \* slot 1 is the base
Empty == [live |-> FALSE]
Bound(o, h) == [live |-> TRUE, ov |-> o, hist |-> h]

InitClone ==
    /\ base = WebServer
    /\ ov = from(base)
    /\ hist = <<>>
    /\ slots = [i \in Slots |-> IF i = 1 THEN Bound(from(base), <<>>) ELSE Empty]
    /\ ncalls = 0
    /\ IdleEnv /\ IdleRunner

\* let d = base.clone();  (bindings are taken in order)
Clone(j) ==
    /\ j /= 1
    /\ ~slots[j].live
    /\ slots[j - 1].live
    /\ slots' = [slots EXCEPT ![j] = Bound(clone(slots[1].ov), slots[1].hist)]
    /\ UNCHANGED <<ncalls, ovVars, envVars, runVars>>

\* let b = b.with_*(..);  the binding is moved into the call and rebound
Rebind(i, new, name, arg) ==
    /\ slots[i].live
    /\ ncalls < MaxCalls
    /\ slots' = [slots EXCEPT ![i] = Bound(new, Append(slots[i].hist, Op(name, arg)))]
    /\ ncalls' = ncalls + 1
    /\ UNCHANGED <<ovVars, envVars, runVars>>

OnArgs(i) == slots[i].live /\ Rebind(i, with_args(slots[i].ov, <<S_arg1>>), "with_args", <<S_arg1>>)
OnName(i) == slots[i].live /\ Rebind(i, with_name(slots[i].ov, S_x), "with_name", S_x)
OnTag(i) ==
    /\ slots[i].live
    /\ \E t \in TagInputs : Rebind(i, with_tag(slots[i].ov, t), "with_tag", t)
OnContainerName(i) ==
    slots[i].live /\ Rebind(i, with_container_name(slots[i].ov, S_c1), "with_container_name", S_c1)
OnNetwork(i) == slots[i].live /\ Rebind(i, with_network(slots[i].ov, S_net), "with_network", S_net)
OnEnvVar(i) ==
    /\ slots[i].live
    /\ \E kv \in {<<S_A, S_1>>, <<S_A, S_2>>} :
           Rebind(i, with_env_var(slots[i].ov, kv[1], kv[2]), "with_env_var", kv)
OnHost(i) ==
    /\ slots[i].live
    /\ Rebind(i, with_host(slots[i].ov, S_B, HostGateway), "with_host", <<S_B, HostGateway>>)
OnVolume(i) ==
    /\ slots[i].live
    /\ Rebind(i, with_volume(slots[i].ov, S_A, S_1), "with_volume", <<S_A, S_1>>)
OnMappedPort(i) ==
    /\ slots[i].live
    /\ Rebind(i, with_mapped_port(slots[i].ov, Port(0, 80)), "with_mapped_port", Port(0, 80))
OnPrivileged(i) ==
    slots[i].live /\ Rebind(i, with_privileged(slots[i].ov, TRUE), "with_privileged", TRUE)
OnShmSize(i) == slots[i].live /\ Rebind(i, with_shm_size(slots[i].ov, 64), "with_shm_size", 64)

NextClone ==
    \/ \E j \in Slots : Clone(j)
    \/ \E i \in Slots : OnArgs(i)
    \/ \E i \in Slots : OnName(i)
    \/ \E i \in Slots : OnTag(i)
    \/ \E i \in Slots : OnContainerName(i)
    \/ \E i \in Slots : OnNetwork(i)
    \/ \E i \in Slots : OnEnvVar(i)
    \/ \E i \in Slots : OnHost(i)
    \/ \E i \in Slots : OnVolume(i)
    \/ \E i \in Slots : OnMappedPort(i)
    \/ \E i \in Slots : OnPrivileged(i)
    \/ \E i \in Slots : OnShmSize(i)

SpecClone == InitClone /\ [][NextClone]_vars

Observed(o) ==
    [descriptor |-> descriptor(o), env |-> o.env_vars, hosts |-> o.hosts,
     volumes |-> o.volumes, ports |-> ports(o)]

Expected(image, h) ==
    [descriptor |-> LastArgOr(h, "with_name", Image_name(image)) \o <<58>>
                    \o LastArgOr(h, "with_tag", Image_tag(image)),
     env |-> LastWriteMap(h, "with_env_var"),
     hosts |-> LastWriteMap(h, "with_host"),
     volumes |-> LastWriteMap(h, "with_volume"),
     ports |-> IF CallsOf(h, "with_mapped_port") = <<>> THEN None
               ELSE Some(ArgsOf(h, "with_mapped_port"))]

\* C8: a clone or with_* call changes the descriptor, maps and port list of no
\* overlay but the one it is made on, and every overlay shows exactly the calls
\* made on it (a clone: those made on the base before it was cloned, then its own).
C8_Independent ==
    [][/\ \E a \in Slots : \A i \in Slots \ {a} :
            /\ slots'[i].live = slots[i].live
            /\ slots[i].live => Observed(slots'[i].ov) = Observed(slots[i].ov)
       /\ \A i \in Slots :
            slots'[i].live => Observed(slots'[i].ov) = Expected(base, slots'[i].hist)]_vars

C8_Witness ==
    /\ slots[2].live /\ slots[3].live
    /\ slots[1].ov = from(base)
    /\ descriptor(slots[1].ov) = Image_name(base) \o <<58>> \o Image_tag(base)
    /\ Len(slots[2].hist) = 1 /\ IsCall(slots[2].hist[1], "with_tag", S_x)
    /\ descriptor(slots[2].ov) = Image_name(base) \o <<58>> \o S_x
    /\ slots[2].ov.env_vars = <<>>
    /\ Len(slots[3].hist) = 1 /\ IsCall(slots[3].hist[1], "with_env_var", <<S_A, S_2>>)
    /\ slots[3].ov.env_vars = (S_A :> S_2)
    /\ descriptor(slots[3].ov) = descriptor(slots[1].ov)


(***************************************************************************)
(* Specification of WaitFor::millis_in_env_var over the process environment *)
(***************************************************************************)
EnvBytes == {43, 45, 48, 50, 53, 120}     \* + - 0 2 5 x
EnvStrings == UNION {[1..n -> EnvBytes] : n \in 0..MaxEnvLen}
Environs == {Unset, [state |-> "not_unicode"]} \cup {[state |-> "set", value |-> v] : v \in EnvStrings}

InitEnv ==
    /\ environ \in Environs
    /\ waitfor = NotCalled
    /\ base = HelloWorld /\ ov = from(base) /\ hist = <<>>
    /\ IdleClone /\ IdleRunner

MillisInEnvVar ==
    /\ ~waitfor.called
    /\ waitfor' = [called |-> TRUE, result |-> millis_in_env_var(environ)]
    /\ UNCHANGED <<environ, ovVars, cloneVars, runVars>>

NextEnv == MillisInEnvVar

SpecEnv == InitEnv /\ [][NextEnv]_vars

IsUnsignedDecimal(v) ==
    LET d == IF v /= <<>> /\ v[1] = 43 THEN SubSeq(v, 2, Len(v)) ELSE v
    IN  d /= <<>> /\ \A i \in 1..Len(d) : d[i] \in {48, 49, 50, 51, 52, 53, 54, 55, 56, 57}

RECURSIVE Pow10(_)
Pow10(n) == IF n = 0 THEN 1 ELSE 10 * Pow10(n - 1)

RECURSIVE SumTo(_, _)
SumTo(f, n) == IF n = 0 THEN 0 ELSE f[n] + SumTo(f, n - 1)

DecimalValue(v) ==
    LET d == IF v[1] = 43 THEN SubSeq(v, 2, Len(v)) ELSE v
    IN  SumTo([i \in 1..Len(d) |-> (d[i] - 48) * Pow10(Len(d) - i)], Len(d))

\* C7: millis_in_env_var returns Nothing when the variable is unset or its value
\* is not an unsigned decimal integer, and otherwise a Duration of exactly that
\* many milliseconds; it returns nothing else.
C7_MillisInEnvVar ==
    waitfor.called =>
        IF environ.state = "set" /\ IsUnsignedDecimal(environ.value)
        THEN /\ waitfor.result.kind = "Duration"
             /\ waitfor.result.length.nanos \in 0..999999999
             /\ waitfor.result.length.nanos % 1000000 = 0
             /\ waitfor.result.length.secs * 1000 + waitfor.result.length.nanos \div 1000000
                    = DecimalValue(environ.value)
        ELSE waitfor.result = [kind |-> "Nothing"]

C7_Witness ==
    /\ waitfor.called
    /\ environ = [state |-> "set", value |-> <<50, 53, 48>>]
    /\ waitfor.result = [kind |-> "Duration", length |-> [secs |-> 0, nanos |-> 250000000]]


(***************************************************************************)
(* Specification of a runner that starts one container from an overlay,    *)
(* resolves its ports, waits for its ready conditions and serves host port *)
(* lookups.  The runner and the engine are outside image.rs.               *)
(***************************************************************************)
RunnerImages == Images \cup {NoWait}
PortPlans == {<<>>, <<Port(0, 80)>>, <<Port(0, 80), Port(8081, 8080)>>}
QueryPorts == {80, 8080, 9090}
LogChunks == {S_Hello_from_Docker, S_re, S_ady, S_x}
EphemeralBase == 32768

RECURSIVE WithMappedPorts(_, _)
WithMappedPorts(o, plan) ==
    IF plan = <<>> THEN o ELSE WithMappedPorts(with_mapped_port(o, Head(plan)), Tail(plan))

Range(f) == {f[i] : i \in DOMAIN f}

\* internal ports the engine publishes for an overlay
Published(o) ==
    IF ports(o).some THEN {p.internal : p \in Range(ports(o).val)}
    ELSE o.image.declared \cup Range(expose_ports(o))

\* host port bound to a published internal port
HostPortOf(o, internal) ==
    LET wanted == IF ports(o).some
                  THEN {p.local : p \in {q \in Range(ports(o).val) : q.internal = internal}} \ {0}
                  ELSE {}
    IN  IF wanted /= {} THEN CHOOSE l \in wanted : TRUE
        ELSE EphemeralBase + Cardinality({q \in Published(o) : q < internal})

RECURSIVE Flatten(_)
Flatten(chunks) == IF chunks = <<>> THEN <<>> ELSE Head(chunks).bytes \o Flatten(Tail(chunks))

Contains(hay, needle) ==
    \E i \in 1..(Len(hay) - Len(needle) + 1) : SubSeq(hay, i, i + Len(needle) - 1) = needle

as_millis(d) == d.secs * 1000 + d.nanos \div 1000000

Satisfied(c) ==
    CASE c.kind = "Nothing" -> TRUE
      [] c.kind = "StdOutMessage" -> Contains(Flatten(stdout), c.message)
      [] c.kind = "Duration" -> (clock - waitStart) * 1000 >= as_millis(c.length)

InitRunner ==
    /\ base \in RunnerImages
    /\ \E plan \in PortPlans :
          /\ ov = WithMappedPorts(from(base), plan)
          /\ hist = [i \in 1..Len(plan) |-> Op("with_mapped_port", plan[i])]
    /\ pc = "created" /\ cs = None /\ stdout = <<>> /\ clock = 0
    /\ cond = 0 /\ waitStart = 0 /\ evalLog = <<>> /\ query = None
    /\ IdleClone /\ IdleEnv

Start ==
    /\ pc = "created"
    /\ \E v6 \in BOOLEAN :
          LET ipv4 == [p \in Published(ov) |-> HostPortOf(ov, p)]
              ipv6 == IF v6 THEN ipv4 ELSE <<>>
          IN  cs' = Some(ContainerState_new(Ports_new(ipv4, ipv6)))
    /\ pc' = IF ready_conditions(ov) = <<>> THEN "ready" ELSE "waiting"
    /\ cond' = 1
    /\ waitStart' = clock
    /\ UNCHANGED <<stdout, clock, evalLog, query, ovVars, cloneVars, envVars>>

Tick ==
    /\ pc = "waiting"
    /\ clock < MaxClock
    /\ clock' = clock + 1
    /\ UNCHANGED <<pc, cs, stdout, cond, waitStart, evalLog, query, ovVars, cloneVars, envVars>>

EmitStdout ==
    /\ pc = "waiting"
    /\ Len(stdout) < MaxLog
    /\ \E chunk \in LogChunks : stdout' = Append(stdout, [bytes |-> chunk, at |-> clock])
    /\ UNCHANGED <<pc, cs, clock, cond, waitStart, evalLog, query, ovVars, cloneVars, envVars>>

ConditionMet ==
    /\ pc = "waiting"
    /\ cond <= Len(ready_conditions(ov))
    /\ Satisfied(ready_conditions(ov)[cond])
    /\ evalLog' = Append(evalLog, [cond |-> ready_conditions(ov)[cond], began |-> waitStart,
                                   done |-> clock, logged |-> Len(stdout)])
    /\ cond' = cond + 1
    /\ waitStart' = clock
    /\ pc' = IF cond = Len(ready_conditions(ov)) THEN "ready" ELSE "waiting"
    /\ UNCHANGED <<cs, stdout, clock, query, ovVars, cloneVars, envVars>>

HostPortIpv4 ==
    /\ pc \in {"waiting", "ready"}
    /\ \E p \in QueryPorts :
          query' = Some([family |-> "ipv4", port |-> p, outcome |-> host_port_ipv4(cs.val, p)])
    /\ UNCHANGED <<pc, cs, stdout, clock, cond, waitStart, evalLog, ovVars, cloneVars, envVars>>

HostPortIpv6 ==
    /\ pc \in {"waiting", "ready"}
    /\ \E p \in QueryPorts :
          query' = Some([family |-> "ipv6", port |-> p, outcome |-> host_port_ipv6(cs.val, p)])
    /\ UNCHANGED <<pc, cs, stdout, clock, cond, waitStart, evalLog, ovVars, cloneVars, envVars>>

NextRunner ==
    \/ Start
    \/ Tick
    \/ EmitStdout
    \/ ConditionMet
    \/ HostPortIpv4
    \/ HostPortIpv6

SpecRunner == InitRunner /\ [][NextRunner]_vars


\* C4: host_port_ipv4(p) returns the IPv4 host port of p when the resolved IPv4
\* mapping has p and panics otherwise; host_port_ipv6(p) does the same against
\* the IPv6 mapping, each lookup consulting its own mapping only.
C4_HostPortLookup ==
    query.some =>
        LET q == query.val
            mapping == IF q.family = "ipv4" THEN cs.val.ports.ipv4 ELSE cs.val.ports.ipv6
        IN  IF q.port \in DOMAIN mapping
            THEN q.outcome = [panic |-> FALSE, value |-> mapping[q.port]]
            ELSE q.outcome = [panic |-> TRUE]

C4_Witness ==
    /\ cs.some /\ query.some
    /\ ports(ov) = Some(<<Port(0, 80)>>)
    /\ cs.val.ports.ipv4 = (80 :> 32768)
    /\ cs.val.ports.ipv6 = <<>>
    /\ host_port_ipv4(cs.val, 80) = Returned(32768)
    /\ query.val = [family |-> "ipv6", port |-> 80, outcome |-> Panic]

Requested(o) == IF ports(o).some THEN {ports(o).val[i].internal : i \in 1..Len(ports(o).val)} ELSE {}
Exposed(o) == {expose_ports(o)[i] : i \in 1..Len(expose_ports(o))}

\* C5 as stated: host_port_ipv4(p) panics for every p that is neither in
\* expose_ports() nor an internal port of the overlay's port requests.
C5_AsStated ==
    (query.some /\ query.val.family = "ipv4"
        /\ query.val.port \notin Exposed(ov) \cup Requested(ov))
    => query.val.outcome = [panic |-> TRUE]

\* C5 (amended): host_port_ipv4(p) panics for every p that is neither declared
\* by the image's metadata, nor in expose_ports(), nor an internal port of the
\* overlay's port requests.
C5_NotPublishedIsFatal ==
    (query.some /\ query.val.family = "ipv4"
        /\ query.val.port \notin base.declared \cup Exposed(ov) \cup Requested(ov))
    => query.val.outcome = [panic |-> TRUE]

C5_Witness ==
    /\ base = HelloWorld
    /\ ports(ov) = None
    /\ cs.some /\ query.some
    /\ query.val = [family |-> "ipv4", port |-> 8080, outcome |-> [panic |-> TRUE]]

\* first time at which the accumulated standard output contained msg
AppearedAt(msg) ==
    LET ks == {k \in 1..Len(stdout) : Contains(Flatten(SubSeq(stdout, 1, k)), msg)}
    IN  stdout[CHOOSE k \in ks : \A j \in ks : k <= j].at

\* C6: the image's ready conditions are satisfied one after the other in list
\* order, a condition's evaluation beginning no earlier than the end of the one
\* before it; the container is ready only when all are satisfied (at once for an
\* empty list); for [StdOutMessage("ready"), Duration(2s)] it is not ready until
\* the message is on stdout and two seconds have passed since it appeared.
C6_ReadyInOrder ==
    LET conds == Image_ready_conditions(base)
    IN  /\ Len(evalLog) <= Len(conds)
        /\ \A i \in 1..Len(evalLog) :
              /\ evalLog[i].cond = conds[i]
              /\ evalLog[i].began <= evalLog[i].done
              /\ i > 1 => evalLog[i].began >= evalLog[i - 1].done
              /\ conds[i].kind = "StdOutMessage" =>
                    Contains(Flatten(SubSeq(stdout, 1, evalLog[i].logged)), conds[i].message)
              /\ conds[i].kind = "Duration" =>
                    evalLog[i].done - evalLog[i].began >= conds[i].length.secs
        /\ pc = "ready" => Len(evalLog) = Len(conds)
        /\ pc = "waiting" => (cond = Len(evalLog) + 1 /\ cond <= Len(conds))
        /\ (pc = "ready" /\ conds = <<[kind |-> "StdOutMessage", message |-> S_ready],
                                       [kind |-> "Duration", length |-> [secs |-> 2, nanos |-> 0]]>>)
              => /\ Contains(Flatten(stdout), S_ready)
                 /\ clock >= AppearedAt(S_ready) + 2

C6_Witness ==
    /\ base = WebServer
    /\ pc = "ready"
    /\ Len(stdout) = 2 /\ stdout[1].bytes = S_re /\ stdout[2].bytes = S_ady
    /\ stdout[2].at = 1
    /\ Len(evalLog) = 2
    /\ evalLog[2].done = 3
    /\ clock = 3

====
